---- MODULE Spec2Model ----
(***************************************************************************)
(* Verification model of optical_topology_or/ot_actions.py: the interface  *)
(* provisioner (ensure_mc_deg, ensure_nmc_deg, ensure_nmc_srg_pp), the     *)
(* frequency-slot overlap check (_slot_overlaps) and the BuildConnection   *)
(* and DeleteConnection actions, over the committed configuration          *)
(* (interface list, roadm-connections list) of one device.                 *)
(*                                                                         *)
(* Strings are TLA+ strings, taken apart with Len and SubSeq, so that      *)
(* f-string formatting, str.startswith and float() are modelled by what    *)
(* they do.                                                                *)
(* A Python float (IEEE-754 double) in the band [128, 256) THz has the     *)
(* form F * 2^-45 with F an integer.  With 2^45 = 1000*Q + R, such an F is *)
(* kept as the pair [a, b] standing for a*Q + b, where a is the value in   *)
(* units of 0.001 THz and b a small integer that carries the binary        *)
(* rounding error; Q itself (about 3.5*10^10) never has to be written, as  *)
(* |b| < 10^6 makes the order on pairs lexicographic.                      *)
(***************************************************************************)
EXTENDS Integers, Sequences, FiniteSets, Bags, TLC

\* ------------------------------------------------------------------------
\* Bounds of the model
\* ------------------------------------------------------------------------
\* a Build is invoked while the connections on the device and the Build
\* invocations in flight number less than MaxConns
MaxConns == 2
\* number of Build invocations that may be in flight together
NumProcs == 2
\* direct calls of the ensure operations are made while fewer than
\* MaxEnsured interfaces other than the OMS ones exist
MaxEnsured == 2

\* ------------------------------------------------------------------------
\* Strings
\* ------------------------------------------------------------------------
DigitChars == <<"0", "1", "2", "3", "4", "5", "6", "7", "8", "9">>

\* s[i - 1] in Python: the i-th character, as a string of length one
Char(s, i) == SubSeq(s, i, i)

IsDigit(c) == \E i \in 1..10 : DigitChars[i] = c

DigitVal(c) == (CHOOSE i \in 1..10 : DigitChars[i] = c) - 1

\* str(n) / f"{n}" for a non-negative int
RECURSIVE Str(_)
Str(n) == IF n < 10 THEN DigitChars[n + 1]
          ELSE Str(n \div 10) \o DigitChars[(n % 10) + 1]

\* f"{n:02d}" for a non-negative int
Pad2(n) == IF n < 10 THEN "0" \o Str(n) ELSE Str(n)

\* s.startswith(p)
StartsWith(s, p) == /\ Len(p) <= Len(s)
                    /\ SubSeq(s, 1, Len(p)) = p

RX == "RX"
TX == "TX"
Dash == "-"

\* ------------------------------------------------------------------------
\* Python floats in [128, 256)
\* ------------------------------------------------------------------------
\* 2^45 mod 1000
R == 832
\* float 0.05 is (50*Q + K1) * 2^-45 + K0 * 2^-57
K1 == 41
K0 == 2458
\* a subtraction or addition of 0.05 is rounded to a multiple of 2^-45:
\* the K0 * 2^-57 tail rounds to one unit when it is above half a unit
Carry == IF K0 > 2048 THEN 1 ELSE 0

\* round-half-even of num/den, for num >= 0 and den > 0
RoundHalfEven(num, den) ==
    LET fl == num \div den
        rem == num % den
    IN IF 2 * rem < den THEN fl
       ELSE IF 2 * rem > den THEN fl + 1
       ELSE IF fl % 2 = 0 THEN fl ELSE fl + 1

\* the double nearest to the decimal n/1000
Nearest(n) == [ok |-> TRUE, a |-> n, b |-> RoundHalfEven(n * R, 1000)]

NotAFloat == [ok |-> FALSE, a |-> 0, b |-> 0]

\* x <= y and x >= y on doubles
FloatLE(x, y) == x.a < y.a \/ (x.a = y.a /\ x.b <= y.b)
FloatGE(x, y) == FloatLE(y, x)

\* f - 0.05 and f + 0.05
Minus005(x) == [ok |-> TRUE, a |-> x.a - 50, b |-> x.b - K1 - Carry]
Plus005(x) == [ok |-> TRUE, a |-> x.a + 50, b |-> x.b + K1 + Carry]

RECURSIVE DigitsVal(_)
DigitsVal(s) == IF s = "" THEN 0
                ELSE 10 * DigitsVal(SubSeq(s, 1, Len(s) - 1)) + DigitVal(Char(s, Len(s)))

AllDigits(s) == \A i \in 1..Len(s) : IsDigit(Char(s, i))

\* float(s) for the strings of the model: digits, optionally followed by
\* "." and at most three digits; anything else (the empty string of an
\* unset leaf, letters) raises ValueError, shown as NotAFloat
ParseFloat(s) ==
    LET dots == {i \in 1..Len(s) : Char(s, i) = "."}
        dot == IF dots = {} THEN Len(s) + 1 ELSE CHOOSE i \in dots : TRUE
        ip == SubSeq(s, 1, dot - 1)
        fp == SubSeq(s, dot + 1, Len(s))
        fp3 == fp \o SubSeq("000", 1, 3 - Len(fp))
    IN IF /\ Cardinality(dots) <= 1
          /\ ip # ""
          /\ AllDigits(ip)
          /\ AllDigits(fp)
          /\ Len(fp) <= 3
       THEN Nearest(1000 * DigitsVal(ip) + DigitsVal(fp3))
       ELSE NotAFloat

\* f"{x:.2f}": the decimal with two fractional digits nearest to the exact
\* value of the double x (ties, which only exactly representable values
\* hit, go to the even neighbour)
Format2(x) ==
    LET lo == (x.a \div 10) * 10
        rem == x.a % 10
        d == 1000 * x.b - x.a * R
        m == IF rem < 5 THEN lo
             ELSE IF rem > 5 THEN lo + 10
             ELSE IF d > 0 THEN lo + 10
             ELSE IF d < 0 THEN lo
             ELSE IF (lo \div 10) % 2 = 0 THEN lo ELSE lo + 10
        cents == (m % 1000) \div 10
    IN Str(m \div 1000) \o "." \o Pad2(cents)

\* ------------------------------------------------------------------------
\* String literals of the naming grammar and of the attribute templates
\* ------------------------------------------------------------------------
sDEG == "DEG"
sMC_TTP_DEG == "MC-TTP-" \o sDEG
sNMC_CTP_DEG == "NMC-CTP-" \o sDEG
sOMS_DEG == "OMS-" \o sDEG
sTTP == "-TTP-"
sSRG1 == "SRG1"
sSRG1_PP == sSRG1 \o "-PP"
sAMPRX == "-AMPRX"
sAMPTX == "-AMPTX"
sIN == "IN"
sOUT == "OUT"
sWSS == "-WSS"
sTo == "-to-"
s100 == "100"

\* an absent action input (Python None)
None == -1

\* a leaf that was never set
Unset == ""

\* a keyed list with the entry k created or replaced by v
Put(list, k, v) == [n \in (DOMAIN list) \cup {k} |-> IF n = k THEN v ELSE list[n]]

\* a keyed list without the entries of ks
Remove(list, ks) == [n \in (DOMAIN list) \ ks |-> list[n]]

\* the elements of a leaf-list
Elems(seq) == {seq[i] : i \in 1..Len(seq)}

\* ------------------------------------------------------------------------
\* Interface provisioner
\* ------------------------------------------------------------------------
McName(degree, direction, freq_str) ==
    sMC_TTP_DEG \o Str(degree) \o Dash \o direction \o Dash \o freq_str

NmcName(degree, direction, freq_str) ==
    sNMC_CTP_DEG \o Str(degree) \o Dash \o direction \o Dash \o freq_str

SrgName(pp, direction, freq_str) ==
    sSRG1_PP \o Pad2(pp) \o Dash \o direction \o Dash \o freq_str

OmsName(degree, direction) == sOMS_DEG \o Str(degree) \o sTTP \o direction

\* Each ensure operation yields the interface list of the open transaction
\* after the call, the returned name, and whether the call raised instead
\* of returning.
ensure_mc_deg(if_list, degree, direction, freq_str) ==
    LET if_name == McName(degree, direction, freq_str)
        created ==
            [type |-> "openROADM-if:mediaChannelTrailTerminationPoint",
             administrative_state |-> "inService",
             supporting_circuit_pack_name |->
                 sDEG \o Str(degree) \o (IF direction = RX THEN sAMPRX ELSE sAMPTX),
             supporting_port |->
                 sDEG \o Str(degree) \o
                 (IF direction = RX THEN sAMPRX \o Dash \o sIN
                                    ELSE sAMPTX \o Dash \o sOUT),
             supporting_interface_list |->
                 <<OmsName(degree, IF direction = RX THEN RX ELSE TX)>>,
             mc_ttp |-> [min_freq |-> Unset, max_freq |-> Unset],
             nmc_ctp |-> [frequency |-> Unset, width |-> Unset]]
        f == ParseFloat(freq_str)
        minf == Minus005(f)
        maxf == Plus005(f)
    IN IF if_name \in DOMAIN if_list
       THEN [if_list |-> if_list, ret |-> if_name, raised |-> FALSE]
       ELSE IF ~f.ok
       THEN [if_list |-> Put(if_list, if_name, created),
             ret |-> Unset, raised |-> TRUE]
       ELSE [if_list |->
                 Put(if_list, if_name,
                     [created EXCEPT !.mc_ttp = [min_freq |-> Format2(minf),
                                                 max_freq |-> Format2(maxf)]]),
             ret |-> if_name, raised |-> FALSE]

\* ensure_nmc_deg with the TX branch linking the RX media channel
ensure_nmc_deg_rx_mc(if_list, degree, direction, freq_str) ==
    LET if_name == NmcName(degree, direction, freq_str)
        created ==
            [type |-> "openROADM-if:networkMediaChannelConnectionTerminationPoint",
             administrative_state |-> "inService",
             supporting_circuit_pack_name |->
                 sDEG \o Str(degree) \o (IF direction = RX THEN sAMPRX ELSE sAMPTX),
             supporting_port |->
                 sDEG \o Str(degree) \o
                 (IF direction = RX THEN sAMPRX \o Dash \o sIN
                                    ELSE sAMPTX \o Dash \o sOUT),
             supporting_interface_list |-> <<McName(degree, RX, freq_str)>>,
             mc_ttp |-> [min_freq |-> Unset, max_freq |-> Unset],
             nmc_ctp |-> [frequency |-> freq_str, width |-> s100]]
    IN IF if_name \in DOMAIN if_list
       THEN [if_list |-> if_list, ret |-> if_name, raised |-> FALSE]
       ELSE [if_list |-> Put(if_list, if_name, created),
             ret |-> if_name, raised |-> FALSE]

ensure_nmc_deg(if_list, degree, direction, freq_str) ==
    LET if_name == NmcName(degree, direction, freq_str)
        created ==
            [type |-> "openROADM-if:networkMediaChannelConnectionTerminationPoint",
             administrative_state |-> "inService",
             supporting_circuit_pack_name |->
                 sDEG \o Str(degree) \o (IF direction = RX THEN sAMPRX ELSE sAMPTX),
             supporting_port |->
                 sDEG \o Str(degree) \o
                 (IF direction = RX THEN sAMPRX \o Dash \o sIN
                                    ELSE sAMPTX \o Dash \o sOUT),
             supporting_interface_list |->
                 <<McName(degree, IF direction = RX THEN RX ELSE TX, freq_str)>>,
             mc_ttp |-> [min_freq |-> Unset, max_freq |-> Unset],
             nmc_ctp |-> [frequency |-> freq_str, width |-> s100]]
    IN IF if_name \in DOMAIN if_list
       THEN [if_list |-> if_list, ret |-> if_name, raised |-> FALSE]
       ELSE [if_list |-> Put(if_list, if_name, created),
             ret |-> if_name, raised |-> FALSE]

\* ensure_nmc_srg_pp with the port pair not zero-padded in the name
ensure_nmc_srg_pp_nopad(if_list, pp, direction, freq_str) ==
    LET if_name == sSRG1_PP \o Str(pp) \o Dash \o direction \o Dash \o freq_str
        created ==
            [type |-> "openROADM-if:networkMediaChannelConnectionTerminationPoint",
             administrative_state |-> "inService",
             supporting_circuit_pack_name |-> sSRG1 \o sWSS,
             supporting_port |->
                 sSRG1 \o Dash \o (IF direction = RX THEN sIN ELSE sOUT) \o Str(pp),
             supporting_interface_list |-> <<>>,
             mc_ttp |-> [min_freq |-> Unset, max_freq |-> Unset],
             nmc_ctp |-> [frequency |-> freq_str, width |-> s100]]
    IN IF if_name \in DOMAIN if_list
       THEN [if_list |-> if_list, ret |-> if_name, raised |-> FALSE]
       ELSE [if_list |-> Put(if_list, if_name, created),
             ret |-> if_name, raised |-> FALSE]

\* ensure_nmc_srg_pp writing its template over an interface that exists
ensure_nmc_srg_pp_upsert(if_list, pp, direction, freq_str) ==
    LET if_name == SrgName(pp, direction, freq_str)
        created ==
            [type |-> "openROADM-if:networkMediaChannelConnectionTerminationPoint",
             administrative_state |-> "inService",
             supporting_circuit_pack_name |-> sSRG1 \o sWSS,
             supporting_port |->
                 sSRG1 \o Dash \o (IF direction = RX THEN sIN ELSE sOUT) \o Str(pp),
             supporting_interface_list |-> <<>>,
             mc_ttp |-> [min_freq |-> Unset, max_freq |-> Unset],
             nmc_ctp |-> [frequency |-> freq_str, width |-> s100]]
    IN [if_list |-> Put(if_list, if_name, created),
        ret |-> if_name, raised |-> FALSE]

ensure_nmc_srg_pp(if_list, pp, direction, freq_str) ==
    LET if_name == SrgName(pp, direction, freq_str)
        created ==
            [type |-> "openROADM-if:networkMediaChannelConnectionTerminationPoint",
             administrative_state |-> "inService",
             supporting_circuit_pack_name |-> sSRG1 \o sWSS,
             supporting_port |->
                 sSRG1 \o Dash \o (IF direction = RX THEN sIN ELSE sOUT) \o Str(pp),
             supporting_interface_list |-> <<>>,
             mc_ttp |-> [min_freq |-> Unset, max_freq |-> Unset],
             nmc_ctp |-> [frequency |-> freq_str, width |-> s100]]
    IN IF if_name \in DOMAIN if_list
       THEN [if_list |-> if_list, ret |-> if_name, raised |-> FALSE]
       ELSE [if_list |-> Put(if_list, if_name, created),
             ret |-> if_name, raised |-> FALSE]

\* ------------------------------------------------------------------------
\* Frequency slot model
\* ------------------------------------------------------------------------
\* SlotHit reporting only a candidate slot that lies inside the existing one
SlotHitContained(if_list, name, degree, direction, new_min, new_max) ==
    LET cur_min == ParseFloat(if_list[name].mc_ttp.min_freq)
        cur_max == ParseFloat(if_list[name].mc_ttp.max_freq)
    IN /\ StartsWith(name, sMC_TTP_DEG \o Str(degree) \o Dash \o direction \o Dash)
       /\ cur_min.ok
       /\ cur_max.ok
       /\ FloatGE(new_min, cur_min)
       /\ FloatLE(new_max, cur_max)

\* the body of the loop for one interface: TRUE when it makes the scan
\* return True
SlotHit(if_list, name, degree, direction, new_min, new_max) ==
    LET cur_min == ParseFloat(if_list[name].mc_ttp.min_freq)
        cur_max == ParseFloat(if_list[name].mc_ttp.max_freq)
    IN /\ StartsWith(name, sMC_TTP_DEG \o Str(degree) \o Dash \o direction \o Dash)
       /\ cur_min.ok
       /\ cur_max.ok
       /\ ~(FloatLE(new_max, cur_min) \/ FloatGE(new_min, cur_max))

\* _slot_overlaps taking a candidate that is no number for a conflict
_slot_overlaps_strict(if_list, degree, direction, freq_str) ==
    LET f == ParseFloat(freq_str)
    IN IF ~f.ok THEN TRUE
       ELSE \E name \in DOMAIN if_list :
               SlotHit(if_list, name, degree, direction, Minus005(f), Plus005(f))

_slot_overlaps(if_list, degree, direction, freq_str) ==
    LET f == ParseFloat(freq_str)
    IN IF ~f.ok THEN FALSE
       ELSE \E name \in DOMAIN if_list :
               SlotHit(if_list, name, degree, direction, Minus005(f), Plus005(f))

\* ------------------------------------------------------------------------
\* Identifier parser
\* ------------------------------------------------------------------------
\* s.split('-')
RECURSIVE Split(_)
Split(s) ==
    LET dashes == {i \in 1..Len(s) : Char(s, i) = Dash}
        first == CHOOSE i \in dashes : \A j \in dashes : i <= j
    IN IF dashes = {} THEN <<s>>
       ELSE <<SubSeq(s, 1, first - 1)>> \o Split(SubSeq(s, first + 1, Len(s)))

\* the digits s starts with: what (\d+) matches at the start of s
RECURSIVE LeadingDigits(_)
LeadingDigits(s) ==
    IF Len(s) > 0 /\ IsDigit(Char(s, 1))
    THEN Char(s, 1) \o LeadingDigits(SubSeq(s, 2, Len(s)))
    ELSE ""

\* int(s) for a string without sign, blanks or underscores; None when it
\* raises
IntOf(s) == IF Len(s) > 0 /\ AllDigits(s) THEN DigitsVal(s) ELSE None

\* the info dict before any token is read; Unset stands for the None of
\* the string fields
NoInfo == [layer |-> Unset, degree_id |-> None, srg_id |-> None,
           pp_id |-> None, direction |-> Unset, frequency |-> Unset]

\* one pass of the loop over the tokens
ReadToken(info, p) ==
    IF StartsWith(p, "DEG")
    THEN IF IntOf(SubSeq(p, 4, Len(p))) # None
         THEN [info EXCEPT !.degree_id = IntOf(SubSeq(p, 4, Len(p)))]
         ELSE info
    ELSE IF StartsWith(p, "SRG")
    THEN IF LeadingDigits(SubSeq(p, 4, Len(p))) # ""
         THEN [info EXCEPT !.srg_id = DigitsVal(LeadingDigits(SubSeq(p, 4, Len(p))))]
         ELSE info
    ELSE IF StartsWith(p, "PP")
    THEN IF LeadingDigits(SubSeq(p, 3, Len(p))) # ""
         THEN [info EXCEPT !.pp_id = DigitsVal(LeadingDigits(SubSeq(p, 3, Len(p))))]
         ELSE info
    ELSE info

\* the loop over the first n tokens
RECURSIVE ReadTokens(_, _, _)
ReadTokens(info, parts, n) ==
    IF n = 0 THEN info
    ELSE ReadToken(ReadTokens(info, parts, n - 1), parts[n])

\* the direction and the frequency of the tokens
DirectionOf(parts) ==
    IF \E i \in 1..Len(parts) : parts[i] = RX THEN RX
    ELSE IF \E i \in 1..Len(parts) : parts[i] = TX THEN TX
    ELSE Unset

FrequencyOf(parts) ==
    IF ParseFloat(parts[Len(parts)]).ok THEN parts[Len(parts)] ELSE Unset

\* parse_if_name without the branch that makes an SRG port interface an NMC
parse_if_name_no_srg_layer(if_name) ==
    LET parts == Split(if_name)
        info == ReadTokens([NoInfo EXCEPT !.direction = DirectionOf(parts),
                                          !.frequency = FrequencyOf(parts)],
                           parts, Len(parts))
    IN IF parts[1] \in {"OMS", "OTS", "MC", "NMC"}
       THEN [info EXCEPT !.layer = parts[1]]
       ELSE info

parse_if_name(if_name) ==
    LET parts == Split(if_name)
        info == ReadTokens([NoInfo EXCEPT !.direction = DirectionOf(parts),
                                          !.frequency = FrequencyOf(parts)],
                           parts, Len(parts))
    IN IF parts[1] \in {"OMS", "OTS", "MC", "NMC"}
       THEN [info EXCEPT !.layer = parts[1]]
       ELSE IF StartsWith(parts[1], "SRG")
       THEN [info EXCEPT !.layer = "NMC"]
       ELSE info

\* ------------------------------------------------------------------------
\* Inputs of the actions
\* ------------------------------------------------------------------------
\* frequency strings offered to Build: two channels 0.1 THz apart, one
\* 0.02 THz above the first, one off the 0.01 THz grid, one not a number
FreqStrs == {"193.3",
             "193.304",
             "193.32",
             "193.4",
             "abc"}

\* degrees offered as src-degree and dst-degree, port pairs offered as dst-pp
Degrees == {1, 2}
PortPairs == {1, 6}

BuildInputs == [src_degree : Degrees \cup {None},
                dst_degree : Degrees \cup {None},
                dst_pp : PortPairs \cup {None},
                frequency : FreqStrs]

DegConnName(src_deg, dst_deg, freq_str) ==
    sDEG \o Str(src_deg) \o Dash \o RX \o sTo \o
    sDEG \o Str(dst_deg) \o Dash \o TX \o Dash \o freq_str

SrgConnName(src_deg, dst_pp, freq_str) ==
    sDEG \o Str(src_deg) \o Dash \o RX \o sTo \o
    sSRG1_PP \o Pad2(dst_pp) \o Dash \o TX \o Dash \o freq_str

\* connection names offered to Delete
DeleteInputs ==
    {DegConnName(s, d, f) : s \in Degrees, d \in Degrees, f \in FreqStrs} \cup
    {SrgConnName(s, p, f) : s \in Degrees, p \in PortPairs, f \in FreqStrs}

\* ------------------------------------------------------------------------
\* State
\* ------------------------------------------------------------------------
VARIABLES
    interface,          \* committed interface list of the device, by name
    roadm_connections,  \* committed roadm-connections list, by name
    pending,            \* bag of the inputs of the Build invocations that
                        \* are between their overlap check and their write
    call,               \* the invocation that has just run and not yet
                        \* returned to its caller: inputs, result and the
                        \* committed lists it started from
    devices,            \* the devices of the store that Discover reads, by
                        \* name: address, circuit packs, interface list and
                        \* roadm-connections list
    topo                \* the topology cache: nodes by device name and
                        \* connections by the key they are created with

vars == <<interface, roadm_connections, pending, call, devices, topo>>

EmptyList == [n \in {} |-> Unset]

\* the cache after "del topo.node[:]" and "del topo.connection[:]"
EmptyTopo == [node |-> EmptyList, connection |-> EmptyList]

NoCall == [op |-> "none", src_degree |-> None, dst_degree |-> None,
           dst_pp |-> None, frequency |-> Unset, direction |-> Unset,
           connection_name |-> Unset, result |-> "none", detail |-> "none",
           ret |-> Unset, again |-> FALSE, first_result |-> "none",
           first_ret |-> Unset,
           pre_interface |-> EmptyList, pre_connections |-> EmptyList,
           device |-> <<>>, pre_topo |-> EmptyTopo]

\* the record of a Build or Delete invocation that ran from the current state
Completed(op, in, conn_name, result, detail) ==
    [NoCall EXCEPT !.op = op,
                   !.src_degree = in.src_degree,
                   !.dst_degree = in.dst_degree,
                   !.dst_pp = in.dst_pp,
                   !.frequency = in.frequency,
                   !.connection_name = conn_name,
                   !.result = result,
                   !.detail = detail,
                   !.pre_interface = interface,
                   !.pre_connections = roadm_connections]

NoInput == [src_degree |-> None, dst_degree |-> None, dst_pp |-> None,
            frequency |-> Unset]

OmsType == "openROADM-if:openROADMOpticalMultiplex"

\* the OMS interfaces of the degrees, which the device carries before any
\* media channel is provisioned
OmsInterfaces ==
    [n \in {OmsName(d, dir) : d \in Degrees, dir \in {RX, TX}} |->
        [type |-> OmsType,
         administrative_state |-> "inService",
         supporting_circuit_pack_name |-> Unset,
         supporting_port |-> Unset,
         supporting_interface_list |-> <<>>,
         mc_ttp |-> [min_freq |-> Unset, max_freq |-> Unset],
         nmc_ctp |-> [frequency |-> Unset, width |-> Unset]]]

\* the devices of the store: D1 with a management address and the circuit
\* packs of both degrees and of the SRG, D2 without address and with the
\* circuit packs of degree 1 alone in its inventory
DeviceNames == {"D1", "D2"}

NoDevices ==
    [d \in DeviceNames |->
        [address |-> IF d = "D1" THEN "10.0.0.1" ELSE Unset,
         circuit_packs |->
             IF d = "D1"
             THEN {"DEG1-AMPRX", "DEG1-AMPTX", "DEG2-AMPRX", "DEG2-AMPTX", "SRG1-WSS"}
             ELSE {"DEG1-AMPRX", "DEG1-AMPTX"},
         interface |-> OmsInterfaces,
         roadm_connections |-> EmptyList]]

\* a device with neither media channels nor connections
Init ==
    /\ interface = OmsInterfaces
    /\ roadm_connections = EmptyList
    /\ pending = EmptyBag
    /\ call = NoCall
    /\ devices = NoDevices
    /\ topo = EmptyTopo

InFlight == BagCardinality(pending)

\* the caller invokes a Build only below the load bound
Admit == Cardinality(DOMAIN roadm_connections) + InFlight < MaxConns

\* ------------------------------------------------------------------------
\* BuildConnection
\* ------------------------------------------------------------------------
\* Validate with the destination checks ahead of the source check
ValidateDstFirst(in) ==
    IF in.dst_degree = None /\ in.dst_pp = None
    THEN [result |-> "AmbiguousOrMissingDestination",
          detail |-> "Error: either dst-degree or dst-pp must be provided"]
    ELSE IF in.dst_degree # None /\ in.dst_pp # None
    THEN [result |-> "AmbiguousOrMissingDestination",
          detail |-> "Error: provide only one of dst-degree or dst-pp"]
    ELSE IF in.src_degree = None
    THEN [result |-> "MissingParameter",
          detail |-> "Error: src-degree must be provided"]
    ELSE [result |-> "ok", detail |-> "ok"]

\* the sanity checks on the inputs: "ok" or the error kind and message
Validate(in) ==
    IF in.src_degree = None
    THEN [result |-> "MissingParameter",
          detail |-> "Error: src-degree must be provided"]
    ELSE IF in.dst_degree = None /\ in.dst_pp = None
    THEN [result |-> "AmbiguousOrMissingDestination",
          detail |-> "Error: either dst-degree or dst-pp must be provided"]
    ELSE IF in.dst_degree # None /\ in.dst_pp # None
    THEN [result |-> "AmbiguousOrMissingDestination",
          detail |-> "Error: provide only one of dst-degree or dst-pp"]
    ELSE [result |-> "ok", detail |-> "ok"]

\* OverlapCheck rejecting the Build when the read transaction raised
OverlapCheckFailClosed(if_list, in, check_error) ==
    IF check_error
    THEN [result |-> "SlotConflict", detail |-> "Overlap check error"]
    ELSE IF _slot_overlaps(if_list, in.src_degree, RX, in.frequency)
    THEN [result |-> "SlotConflict", detail |-> "overlaps existing MC on src RX"]
    ELSE IF in.dst_degree # None
            /\ _slot_overlaps(if_list, in.dst_degree, TX, in.frequency)
    THEN [result |-> "SlotConflict", detail |-> "overlaps existing MC on dst TX"]
    ELSE [result |-> "ok", detail |-> "ok"]

\* OverlapCheck without the check of the source degree
OverlapCheckDstOnly(if_list, in, check_error) ==
    IF check_error
    THEN [result |-> "ok", detail |-> "Overlap check error"]
    ELSE IF in.dst_degree # None
            /\ _slot_overlaps(if_list, in.dst_degree, TX, in.frequency)
    THEN [result |-> "SlotConflict", detail |-> "overlaps existing MC on dst TX"]
    ELSE [result |-> "ok", detail |-> "ok"]

\* OverlapCheck without the check of the destination degree
OverlapCheckSrcOnly(if_list, in, check_error) ==
    IF check_error
    THEN [result |-> "ok", detail |-> "Overlap check error"]
    ELSE IF _slot_overlaps(if_list, in.src_degree, RX, in.frequency)
    THEN [result |-> "SlotConflict", detail |-> "overlaps existing MC on src RX"]
    ELSE [result |-> "ok", detail |-> "ok"]

\* the overlap checks of the read transaction on the committed interface
\* list; check_error: the read transaction raised, which is logged and
\* swallowed
OverlapCheck(if_list, in, check_error) ==
    IF check_error
    THEN [result |-> "ok", detail |-> "Overlap check error"]
    ELSE IF _slot_overlaps(if_list, in.src_degree, RX, in.frequency)
    THEN [result |-> "SlotConflict", detail |-> "overlaps existing MC on src RX"]
    ELSE IF /\ in.dst_degree # None
            /\ _slot_overlaps(if_list, in.dst_degree, TX, in.frequency)
    THEN [result |-> "SlotConflict", detail |-> "overlaps existing MC on dst TX"]
    ELSE [result |-> "ok", detail |-> "ok"]

ConnName(in) ==
    IF in.dst_degree # None
    THEN DegConnName(in.src_degree, in.dst_degree, in.frequency)
    ELSE SrgConnName(in.src_degree, in.dst_pp, in.frequency)

\* hasattr(conn, "target_output_power"): the leaf is in the device model
HasTargetOutputPower == TRUE

\* a write transaction that repeats the overlap checks and gives up on a hit
WriteTransRecheck(if_list, rc_list, in) ==
    LET src_mc == ensure_mc_deg(if_list, in.src_degree, RX, in.frequency)
        src_nmc == ensure_nmc_deg(src_mc.if_list, in.src_degree, RX, in.frequency)
        dst_mc == IF in.dst_degree # None
                  THEN ensure_mc_deg(src_nmc.if_list, in.dst_degree, TX, in.frequency)
                  ELSE src_nmc
        dst_nmc == IF in.dst_degree # None
                   THEN ensure_nmc_deg(dst_mc.if_list, in.dst_degree, TX, in.frequency)
                   ELSE ensure_nmc_srg_pp(src_nmc.if_list, in.dst_pp, TX, in.frequency)
        conn_name == ConnName(in)
        conn == [source |-> [src_if |-> src_nmc.ret],
                 destination |-> [dst_if |-> dst_nmc.ret],
                 opticalControlMode |-> "off",
                 target_output_power |-> "0.0"]
    IN IF \/ src_mc.raised
          \/ dst_mc.raised
          \/ OverlapCheck(if_list, in, FALSE).result # "ok"
       THEN [raised |-> TRUE, interface |-> if_list,
             roadm_connections |-> rc_list, conn_name |-> Unset]
       ELSE [raised |-> FALSE, interface |-> dst_nmc.if_list,
             roadm_connections |-> Put(rc_list, conn_name, conn),
             conn_name |-> conn_name]

\* the write transaction on the lists it finds committed: the lists it
\* applies, or raised when an ensure operation raised before t.apply()
WriteTrans(if_list, rc_list, in) ==
    LET src_mc == ensure_mc_deg(if_list, in.src_degree, RX, in.frequency)
        src_nmc == ensure_nmc_deg(src_mc.if_list, in.src_degree, RX, in.frequency)
        dst_mc == IF in.dst_degree # None
                  THEN ensure_mc_deg(src_nmc.if_list, in.dst_degree, TX, in.frequency)
                  ELSE src_nmc
        dst_nmc == IF in.dst_degree # None
                   THEN ensure_nmc_deg(dst_mc.if_list, in.dst_degree, TX, in.frequency)
                   ELSE ensure_nmc_srg_pp(src_nmc.if_list, in.dst_pp, TX, in.frequency)
        conn_name == ConnName(in)
        conn == IF conn_name \in DOMAIN rc_list
                THEN rc_list[conn_name]
                ELSE [source |-> [src_if |-> Unset],
                      destination |-> [dst_if |-> Unset],
                      opticalControlMode |-> "unset",
                      target_output_power |-> Unset]
        conn2 == [conn EXCEPT !.source.src_if = src_nmc.ret,
                              !.destination.dst_if = dst_nmc.ret,
                              !.opticalControlMode = "off"]
        conn3 == IF HasTargetOutputPower
                 THEN [conn2 EXCEPT !.target_output_power = "0.0"]
                 ELSE conn2
    IN IF src_mc.raised \/ dst_mc.raised
       THEN [raised |-> TRUE, interface |-> if_list,
             roadm_connections |-> rc_list, conn_name |-> Unset]
       ELSE [raised |-> FALSE, interface |-> dst_nmc.if_list,
             roadm_connections |-> Put(rc_list, conn_name, conn3),
             conn_name |-> conn_name]

\* the whole handler, no other invocation running between its overlap
\* check and its write transaction
BuildConnection(in, check_error) ==
    LET v == Validate(in)
        c == OverlapCheck(interface, in, check_error)
        w == WriteTrans(interface, roadm_connections, in)
    IN /\ call.op = "none"
       /\ Admit
       /\ InFlight = 0
       /\ IF v.result # "ok"
          THEN /\ call' = Completed("Build", in, Unset, v.result, v.detail)
               /\ UNCHANGED <<interface, roadm_connections>>
          ELSE IF c.result # "ok"
          THEN /\ call' = Completed("Build", in, Unset, c.result, c.detail)
               /\ UNCHANGED <<interface, roadm_connections>>
          ELSE IF w.raised
          THEN /\ call' = Completed("Build", in, Unset, "Exception", c.detail)
               /\ UNCHANGED <<interface, roadm_connections>>
          ELSE /\ call' = Completed("Build", in, w.conn_name, "Created", c.detail)
               /\ interface' = w.interface
               /\ roadm_connections' = w.roadm_connections
       /\ UNCHANGED pending

\* the handler up to the end of its read transaction
BuildCheck(in, check_error) ==
    LET v == Validate(in)
        c == OverlapCheck(interface, in, check_error)
    IN /\ call.op = "none"
       /\ Admit
       /\ InFlight < NumProcs
       /\ IF v.result # "ok"
          THEN /\ call' = Completed("Build", in, Unset, v.result, v.detail)
               /\ UNCHANGED pending
          ELSE IF c.result # "ok"
          THEN /\ call' = Completed("Build", in, Unset, c.result, c.detail)
               /\ UNCHANGED pending
          ELSE /\ pending' = pending (+) SetToBag({in})
               /\ UNCHANGED call
       /\ UNCHANGED <<interface, roadm_connections>>

\* the write transaction of an invocation that passed its overlap check
\* with inputs in
BuildWrite(in) ==
    LET w == WriteTrans(interface, roadm_connections, in)
    IN /\ call.op = "none"
       /\ BagIn(in, pending)
       /\ pending' = pending (-) SetToBag({in})
       /\ IF w.raised
          THEN /\ call' = Completed("Build", in, Unset, "Exception", "ok")
               /\ UNCHANGED <<interface, roadm_connections>>
          ELSE /\ call' = Completed("Build", in, w.conn_name, "Created", "ok")
               /\ interface' = w.interface
               /\ roadm_connections' = w.roadm_connections

\* ------------------------------------------------------------------------
\* DeleteConnection
\* ------------------------------------------------------------------------
\* UsedIf collecting the source interfaces alone
UsedIfSources(if_list, rc_list) ==
    LET direct == {rc_list[n].source.src_if : n \in DOMAIN rc_list}
    IN direct \cup
       UNION {Elems(if_list[n].supporting_interface_list) :
                 n \in direct \cap DOMAIN if_list}

\* UsedIf without the supporting interfaces
UsedIfDirect(if_list, rc_list) ==
    UNION {{rc_list[n].source.src_if, rc_list[n].destination.dst_if} :
              n \in DOMAIN rc_list}

\* interfaces still used by the connections of rc_list, with the
\* supporting interfaces of those that exist
UsedIf(if_list, rc_list) ==
    LET direct == UNION {{rc_list[n].source.src_if, rc_list[n].destination.dst_if} :
                            n \in DOMAIN rc_list}
    IN direct \cup
       UNION {Elems(if_list[n].supporting_interface_list) :
                 n \in direct \cap DOMAIN if_list}

\* DeleteCandidates with the two endpoints alone
DeleteCandidatesEndpoints(if_list, src_if, dst_if) == {src_if, dst_if}

\* the endpoints of the deleted connection and their supporting interfaces
DeleteCandidates(if_list, src_if, dst_if) ==
    {src_if, dst_if} \cup
    UNION {Elems(if_list[n].supporting_interface_list) :
              n \in {src_if, dst_if} \cap DOMAIN if_list}

\* DeleteTrans protecting the endpoints of the remaining connections but
\* not the media channels they list as supporting
DeleteTransDirectUse(if_list, rc_list, conn_name) ==
    LET conn == rc_list[conn_name]
        src_if == conn.source.src_if
        dst_if == conn.destination.dst_if
        remaining == Remove(rc_list, {conn_name})
        used_if == UNION {{remaining[n].source.src_if,
                           remaining[n].destination.dst_if} : n \in DOMAIN remaining}
        delete_candidates == DeleteCandidates(if_list, src_if, dst_if)
    IN [interface |-> Remove(if_list, delete_candidates \ used_if),
        roadm_connections |-> remaining]

\* DeleteTrans collecting the interfaces in use before it deletes the
\* connection
DeleteTransUsedFirst(if_list, rc_list, conn_name) ==
    LET conn == rc_list[conn_name]
        src_if == conn.source.src_if
        dst_if == conn.destination.dst_if
        used_if == UsedIf(if_list, rc_list)
        delete_candidates == DeleteCandidates(if_list, src_if, dst_if)
    IN [interface |-> Remove(if_list, delete_candidates \ used_if),
        roadm_connections |-> Remove(rc_list, {conn_name})]

\* the write transaction of a Delete of a connection that exists, on the
\* lists it finds committed: the lists it applies
DeleteTrans(if_list, rc_list, conn_name) ==
    LET conn == rc_list[conn_name]
        src_if == conn.source.src_if
        dst_if == conn.destination.dst_if
        remaining == Remove(rc_list, {conn_name})
        used_if == UsedIf(if_list, remaining)
        delete_candidates == DeleteCandidates(if_list, src_if, dst_if)
    IN [interface |-> Remove(if_list, delete_candidates \ used_if),
        roadm_connections |-> remaining]

\* DeleteConnection reporting success for a name it does not find
DeleteConnectionUnchecked(conn_name) ==
    LET d == DeleteTrans(interface, roadm_connections, conn_name)
    IN /\ call.op = "none"
       /\ call' = Completed("Delete", NoInput, conn_name,
                            "Deleted", "successfully deleted")
       /\ IF conn_name \notin DOMAIN roadm_connections
          THEN UNCHANGED <<interface, roadm_connections>>
          ELSE /\ roadm_connections' = d.roadm_connections
               /\ interface' = d.interface
       /\ UNCHANGED pending

DeleteConnection(conn_name) ==
    LET d == DeleteTrans(interface, roadm_connections, conn_name)
    IN /\ call.op = "none"
       /\ IF conn_name \notin DOMAIN roadm_connections
          THEN /\ call' = Completed("Delete", NoInput, conn_name,
                                    "ConnectionNotFound", "not found")
               /\ UNCHANGED <<interface, roadm_connections>>
          ELSE /\ call' = Completed("Delete", NoInput, conn_name,
                                    "Deleted", "successfully deleted")
               /\ roadm_connections' = d.roadm_connections
               /\ interface' = d.interface
       /\ UNCHANGED pending

\* the handler returns and its result goes to the caller
Return ==
    /\ call.op # "none"
    /\ call' = NoCall
    /\ UNCHANGED <<interface, roadm_connections, pending, devices, topo>>

\* ------------------------------------------------------------------------
\* Direct calls of the provisioner and of the slot model
\* ------------------------------------------------------------------------
\* Here interface is the interface list of the transaction the caller holds
\* open: an ensure operation that raises leaves in it what it had set.
EnsureOps == {"ensure_mc_deg", "ensure_nmc_deg", "ensure_nmc_srg_pp"}

EnsureInputs == [op : EnsureOps, degree : Degrees \cup {None},
                 pp : PortPairs \cup {None},
                 direction : {RX, TX}, frequency : FreqStrs]

\* the operation op on if_list; the port pair is read by the SRG operation
\* and the degree by the other two
Ensure(if_list, op, degree, pp, direction, freq_str) ==
    IF op = "ensure_mc_deg" THEN ensure_mc_deg(if_list, degree, direction, freq_str)
    ELSE IF op = "ensure_nmc_deg" THEN ensure_nmc_deg(if_list, degree, direction, freq_str)
    ELSE ensure_nmc_srg_pp(if_list, pp, direction, freq_str)

EnsuredCount == Cardinality({n \in DOMAIN interface : interface[n].type # OmsType})

EnsureCall(e) ==
    LET r == Ensure(interface, e.op, e.degree, e.pp, e.direction, e.frequency)
    IN /\ call.op = "none"
       /\ EnsuredCount < MaxEnsured
       /\ IF e.op = "ensure_nmc_srg_pp"
          THEN e.degree = None /\ e.pp # None
          ELSE e.degree # None /\ e.pp = None
       /\ interface' = r.if_list
       /\ call' = [NoCall EXCEPT !.op = e.op,
                                 !.src_degree = e.degree,
                                 !.dst_pp = e.pp,
                                 !.direction = e.direction,
                                 !.frequency = e.frequency,
                                 !.result = IF r.raised THEN "raised" ELSE "returned",
                                 !.ret = r.ret,
                                 !.pre_interface = interface]
       /\ UNCHANGED <<roadm_connections, pending>>

\* the caller repeats the call it has just made, with identical arguments
EnsureAgain ==
    LET r == Ensure(interface, call.op, call.src_degree, call.dst_pp,
                    call.direction, call.frequency)
    IN /\ call.op \in EnsureOps
       /\ ~call.again
       /\ interface' = r.if_list
       /\ call' = [call EXCEPT !.again = TRUE,
                               !.first_result = call.result,
                               !.first_ret = call.ret,
                               !.result = IF r.raised THEN "raised" ELSE "returned",
                               !.ret = r.ret,
                               !.pre_interface = interface]
       /\ UNCHANGED <<roadm_connections, pending, devices, topo>>

SlotOverlapsCall(degree, direction, freq_str) ==
    /\ call.op = "none"
    /\ call' = [NoCall EXCEPT !.op = "_slot_overlaps",
                              !.src_degree = degree,
                              !.direction = direction,
                              !.frequency = freq_str,
                              !.result =
                                  IF _slot_overlaps(interface, degree, direction, freq_str)
                                  THEN "True" ELSE "False",
                              !.pre_interface = interface]
    /\ UNCHANGED <<interface, roadm_connections, pending>>

\* an SRG port interface configured on the device by other means, with the
\* port out of service
ForeignName == SrgName(1, TX, "193.3")

ForeignInterface ==
    [type |-> "openROADM-if:networkMediaChannelConnectionTerminationPoint",
     administrative_state |-> "outOfService",
     supporting_circuit_pack_name |-> "SRG1-WSS",
     supporting_port |-> "SRG1-OUT1",
     supporting_interface_list |-> <<>>,
     mc_ttp |-> [min_freq |-> Unset, max_freq |-> Unset],
     nmc_ctp |-> [frequency |-> "193.3", width |-> "50"]]

InitProv ==
    /\ interface \in {OmsInterfaces, Put(OmsInterfaces, ForeignName, ForeignInterface)}
    /\ roadm_connections = EmptyList
    /\ pending = EmptyBag
    /\ call = NoCall
    /\ devices = NoDevices
    /\ topo = EmptyTopo

\* ------------------------------------------------------------------------
\* DiscoverTopology
\* ------------------------------------------------------------------------
\* re.match(r"DEG(\d+)-", cpname): the degree id, or None without a match
CpDegree(cpname) ==
    LET digits == LeadingDigits(SubSeq(cpname, 4, Len(cpname)))
    IN IF /\ StartsWith(cpname, "DEG")
          /\ digits # ""
          /\ Len(cpname) >= 4 + Len(digits)
          /\ Char(cpname, 4 + Len(digits)) = Dash
       THEN DigitsVal(digits)
       ELSE None

\* re.match(r"SRG(\d+)", cpname), tried on the names that are no degree's
CpSrg(cpname) ==
    LET digits == LeadingDigits(SubSeq(cpname, 4, Len(cpname)))
    IN IF CpDegree(cpname) = None /\ StartsWith(cpname, "SRG") /\ digits # ""
       THEN DigitsVal(digits)
       ELSE None

\* a node and a termination point as create() makes them
NewNode == [device |-> Unset, mgmt_ip |-> Unset, degree |-> {}, srg |-> {},
            tp |-> EmptyList]

NewTp == [interface |-> Unset, layer |-> Unset, degree_id |-> None,
          srg_id |-> None, direction |-> Unset, frequency |-> Unset]

\* the termination point of interface if_name, created or found as old
VisitTp(old, if_name) ==
    LET info == parse_if_name(if_name)
    IN [interface |-> if_name,
        layer |-> IF info.layer # Unset THEN info.layer ELSE old.layer,
        degree_id |-> IF info.degree_id # None THEN info.degree_id
                      ELSE old.degree_id,
        srg_id |-> IF info.srg_id # None THEN info.srg_id ELSE old.srg_id,
        direction |-> IF info.direction # Unset THEN info.direction
                      ELSE old.direction,
        frequency |-> IF info.frequency # Unset THEN info.frequency
                      ELSE old.frequency]

\* one pass of the loop over the device names: the cache t after the
\* visit of dev_name
VisitDevice(t, store, dev_name) ==
    IF dev_name \notin DOMAIN store THEN t
    ELSE
    LET dev == store[dev_name]
        old == IF dev_name \in DOMAIN t.node THEN t.node[dev_name] ELSE NewNode
        infos == {parse_if_name(n) : n \in DOMAIN dev.interface}
        node ==
            [device |-> dev_name,
             mgmt_ip |-> IF dev.address # Unset THEN dev.address ELSE old.mgmt_ip,
             degree |-> (old.degree
                         \cup {CpDegree(cp) : cp \in dev.circuit_packs}
                         \cup {i.degree_id : i \in infos}) \ {None},
             srg |-> (old.srg
                      \cup {CpSrg(cp) : cp \in dev.circuit_packs}
                      \cup {i.srg_id : i \in infos}) \ {None},
             tp |-> [n \in DOMAIN old.tp \cup DOMAIN dev.interface |->
                        IF n \notin DOMAIN dev.interface THEN old.tp[n]
                        ELSE VisitTp(IF n \in DOMAIN old.tp THEN old.tp[n]
                                     ELSE NewTp, n)]]
        connection ==
            [c \in DOMAIN t.connection \cup DOMAIN dev.roadm_connections |->
                IF c \notin DOMAIN dev.roadm_connections THEN t.connection[c]
                ELSE [name |-> c,
                      device |-> dev_name,
                      src_if |-> dev.roadm_connections[c].source.src_if,
                      dst_if |-> dev.roadm_connections[c].destination.dst_if]]
    IN [node |-> Put(t.node, dev_name, node), connection |-> connection]

\* the loop over the first n names of devs
RECURSIVE VisitDevices(_, _, _, _)
VisitDevices(t, store, devs, n) ==
    IF n = 0 THEN t
    ELSE VisitDevice(VisitDevices(t, store, devs, n - 1), store, devs[n])

\* the devices of the store in the order of their names
DeviceOrder == <<"D1", "D2">>

\* "input.device or [d.name for d in root.ncs__devices.device]"
Requested(store, device_list) ==
    IF device_list # <<>> THEN device_list
    ELSE SelectSeq(DeviceOrder, LAMBDA d : d \in DOMAIN store)

\* the transaction without "del topo.node[:]" and "del topo.connection[:]"
DiscoverRunKeepsCache(old_topo, store, device_list) ==
    LET devs == Requested(store, device_list)
    IN VisitDevices(old_topo, store, devs, Len(devs))

\* the transaction taking a node found in the cache for stale: it is
\* dropped, and created again by the run after
DiscoverRunDropsFound(old_topo, store, device_list) ==
    LET devs == Requested(store, device_list)
        t == VisitDevices(EmptyTopo, store, devs, Len(devs))
    IN [t EXCEPT !.node = Remove(t.node, DOMAIN old_topo.node)]

\* the transaction of a Discover run that finds old_topo in the cache: the
\* cache it applies
DiscoverRun(old_topo, store, device_list) ==
    LET devs == Requested(store, device_list)
        cleared == [old_topo EXCEPT !.node = EmptyList,
                                    !.connection = EmptyList]
    IN VisitDevices(cleared, store, devs, Len(devs))

\* device lists offered to Discover; no device is named D3
DeviceLists == {<<>>, <<"D1">>, <<"D2">>, <<"D2", "D1">>, <<"D3", "D1">>}

DiscoverTopology(device_list) ==
    /\ call.op = "none"
    /\ topo' = DiscoverRun(topo, devices, device_list)
    /\ call' = [NoCall EXCEPT !.op = "Discover",
                              !.device = device_list,
                              !.result = "Discovery complete",
                              !.pre_topo = topo]
    /\ UNCHANGED <<interface, roadm_connections, pending, devices>>

\* the caller repeats the Discover it has just run, with the same list
DiscoverAgain ==
    /\ call.op = "Discover"
    /\ ~call.again
    /\ topo' = DiscoverRun(topo, devices, call.device)
    /\ call' = [call EXCEPT !.again = TRUE, !.pre_topo = topo]
    /\ UNCHANGED <<interface, roadm_connections, pending, devices>>

\* Build inputs offered for the devices that Discover reads
DeviceBuildInputs ==
    {[src_degree |-> 1, dst_degree |-> 2, dst_pp |-> None, frequency |-> "193.3"],
     [src_degree |-> 2, dst_degree |-> None, dst_pp |-> 1, frequency |-> "193.3"]}

\* a Build invocation naming device d, no other invocation running
DeviceBuild(d, in) ==
    LET dev == devices[d]
        v == Validate(in)
        c == OverlapCheck(dev.interface, in, FALSE)
        w == WriteTrans(dev.interface, dev.roadm_connections, in)
    IN /\ call.op = "none"
       /\ devices' =
              IF v.result = "ok" /\ c.result = "ok" /\ ~w.raised
              THEN [devices EXCEPT ![d].interface = w.interface,
                                   ![d].roadm_connections = w.roadm_connections]
              ELSE devices
       /\ UNCHANGED <<interface, roadm_connections, pending, call, topo>>

\* a Delete invocation naming device d
DeviceDelete(d, conn_name) ==
    LET dev == devices[d]
        t == DeleteTrans(dev.interface, dev.roadm_connections, conn_name)
    IN /\ call.op = "none"
       /\ devices' =
              IF conn_name \in DOMAIN dev.roadm_connections
              THEN [devices EXCEPT ![d].interface = t.interface,
                                   ![d].roadm_connections = t.roadm_connections]
              ELSE devices
       /\ UNCHANGED <<interface, roadm_connections, pending, call, topo>>

\* ------------------------------------------------------------------------
\* Specifications
\* ------------------------------------------------------------------------
BuildStep ==
    /\ \E in \in BuildInputs : BuildConnection(in, FALSE)
    /\ UNCHANGED <<devices, topo>>

DeleteStep ==
    /\ \E conn_name \in DeleteInputs : DeleteConnection(conn_name)
    /\ UNCHANGED <<devices, topo>>

BuildCheckStep ==
    /\ \E in \in BuildInputs : BuildCheck(in, FALSE)
    /\ UNCHANGED <<devices, topo>>

BuildWriteStep ==
    /\ \E in \in BuildInputs : BuildWrite(in)
    /\ UNCHANGED <<devices, topo>>

\* invocations one at a time
Next == BuildStep \/ DeleteStep \/ Return

Spec == Init /\ [][Next]_vars

\* Build invocations overlapping in time
NextConc == BuildCheckStep \/ BuildWriteStep \/ DeleteStep \/ Return

SpecConc == Init /\ [][NextConc]_vars

BuildFaultStep ==
    /\ \E in \in BuildInputs, check_error \in BOOLEAN :
           BuildConnection(in, check_error)
    /\ UNCHANGED <<devices, topo>>

\* invocations one at a time, the read transaction of a Build raising or not
NextFault == BuildFaultStep \/ DeleteStep \/ Return

SpecFault == Init /\ [][NextFault]_vars

EnsureStep ==
    /\ \E e \in EnsureInputs : EnsureCall(e)
    /\ UNCHANGED <<devices, topo>>

SlotOverlapsStep ==
    /\ \E degree \in Degrees, direction \in {RX, TX}, freq_str \in FreqStrs :
           SlotOverlapsCall(degree, direction, freq_str)
    /\ UNCHANGED <<devices, topo>>

\* the provisioner and the slot model called directly
NextProv == EnsureStep \/ EnsureAgain \/ SlotOverlapsStep \/ Return

SpecProv == InitProv /\ [][NextProv]_vars

DiscoverStep == \E device_list \in DeviceLists : DiscoverTopology(device_list)

DeviceBuildStep ==
    \E d \in DeviceNames, in \in DeviceBuildInputs : DeviceBuild(d, in)

DeviceDeleteStep ==
    \E d \in DeviceNames, in \in DeviceBuildInputs :
        DeviceDelete(d, ConnName(in))

\* Discover runs between Build and Delete invocations on two devices
NextDisc ==
    DeviceBuildStep \/ DeviceDeleteStep \/ DiscoverStep \/ DiscoverAgain \/ Return

SpecDisc == Init /\ [][NextDisc]_vars

\* ------------------------------------------------------------------------
\* Properties
\* ------------------------------------------------------------------------
\* Frequencies are compared here as exact decimals, in units of 0.001 THz.
Numeric(s) == ParseFloat(s).ok

Milli(s) == ParseFloat(s).a

McType == "openROADM-if:mediaChannelTrailTerminationPoint"

NmcType == "openROADM-if:networkMediaChannelConnectionTerminationPoint"

McPrefix(d, dir) == "MC-TTP-DEG" \o Str(d) \o "-" \o dir \o "-"

\* the media channels of if_list on degree d, direction dir
McOn(if_list, d, dir) ==
    {n \in DOMAIN if_list : StartsWith(n, McPrefix(d, dir))}

HasSlot(i) == Numeric(i.mc_ttp.min_freq) /\ Numeric(i.mc_ttp.max_freq)

\* the stored slots of two interfaces share more than an endpoint
StoredOverlap(i1, i2) ==
    /\ HasSlot(i1)
    /\ HasSlot(i2)
    /\ Milli(i1.mc_ttp.min_freq) < Milli(i2.mc_ttp.max_freq)
    /\ Milli(i2.mc_ttp.min_freq) < Milli(i1.mc_ttp.max_freq)

StoredTouch(i1, i2) ==
    /\ HasSlot(i1)
    /\ HasSlot(i2)
    /\ Milli(i1.mc_ttp.max_freq) = Milli(i2.mc_ttp.min_freq)

\* the slot [f-0.05, f+0.05] shares more than an endpoint with the stored
\* slot of a media channel of if_list on (d, dir)
CandidateOverlaps(if_list, d, dir, f) ==
    \E n \in McOn(if_list, d, dir) :
        /\ HasSlot(if_list[n])
        /\ Milli(f) - 50 < Milli(if_list[n].mc_ttp.max_freq)
        /\ Milli(if_list[n].mc_ttp.min_freq) < Milli(f) + 50

\* the slot [f-0.05, f+0.05] lies apart from every stored slot on (d, dir)
CandidateApart(if_list, d, dir, f) ==
    \A n \in McOn(if_list, d, dir) :
        /\ HasSlot(if_list[n])
        /\ \/ Milli(f) + 50 < Milli(if_list[n].mc_ttp.min_freq)
           \/ Milli(if_list[n].mc_ttp.max_freq) < Milli(f) - 50

ValidInputs(c) ==
    /\ c.src_degree # None
    /\ (c.dst_degree = None) # (c.dst_pp = None)

\* C1: with Build and Delete invocations one at a time, on every degree
\* and direction no two media-channel interfaces have stored slots that
\* overlap; slots that share only an endpoint are allowed.
C1_NoOverlappingSlots ==
    \A d \in Degrees, dir \in {RX, TX} :
        \A n1, n2 \in McOn(interface, d, dir) :
            n1 # n2 => ~StoredOverlap(interface[n1], interface[n2])

\* two media channels on degree 1 RX whose slots touch at 193.35
C1_TouchingSlots ==
    /\ "MC-TTP-DEG1-RX-193.3" \in DOMAIN interface
    /\ "MC-TTP-DEG1-RX-193.4" \in DOMAIN interface
    /\ StoredTouch(interface["MC-TTP-DEG1-RX-193.3"],
                   interface["MC-TTP-DEG1-RX-193.4"])

\* C2: a Build whose candidate slot overlaps a stored slot on the source
\* degree's RX side, or on the destination degree's TX side when the
\* destination is a degree, is rejected with SlotConflict and leaves the
\* interface and connection lists as they were.
C2_ConflictRejected ==
    ( /\ call.op = "Build"
      /\ ValidInputs(call)
      /\ Numeric(call.frequency)
      /\ \/ CandidateOverlaps(call.pre_interface, call.src_degree, RX,
                              call.frequency)
         \/ /\ call.dst_degree # None
            /\ CandidateOverlaps(call.pre_interface, call.dst_degree, TX,
                                 call.frequency) )
    => /\ call.result = "SlotConflict"
       /\ interface = call.pre_interface
       /\ roadm_connections = call.pre_connections

\* a Build rejected for the destination side alone
C2_RejectedOnDestination ==
    /\ call.op = "Build"
    /\ call.result = "SlotConflict"
    /\ call.dst_degree # None
    /\ ~CandidateOverlaps(call.pre_interface, call.src_degree, RX, call.frequency)
    /\ CandidateOverlaps(call.pre_interface, call.dst_degree, TX, call.frequency)
    /\ interface = call.pre_interface

\* name is an endpoint of a connection of rc_list, or is listed as
\* supporting interface of such an endpoint in if_list
ProtectedBy(name, if_list, rc_list) ==
    \E c \in DOMAIN rc_list :
        \E e \in {rc_list[c].source.src_if, rc_list[c].destination.dst_if} :
            \/ name = e
            \/ /\ e \in DOMAIN if_list
               /\ \E k \in DOMAIN if_list[e].supporting_interface_list :
                      if_list[e].supporting_interface_list[k] = name

\* the connection a Delete invocation has removed
Deleted == call.pre_connections[call.connection_name]

\* C3: a Delete of an existing connection removes no interface that is the
\* source or destination of a remaining connection, nor one listed as
\* supporting interface of such an interface.
C3_DeleteKeepsReferenced ==
    (call.op = "Delete" /\ call.result = "Deleted")
    => \A n \in DOMAIN call.pre_interface :
           ProtectedBy(n, call.pre_interface, roadm_connections)
           => /\ n \in DOMAIN interface
              /\ interface[n] = call.pre_interface[n]

\* a deleted connection whose source NMC a remaining connection uses:
\* the NMC and its media channel are still there
C3_SharedEndpointSurvives ==
    /\ call.op = "Delete"
    /\ call.result = "Deleted"
    /\ \E c \in DOMAIN roadm_connections :
           roadm_connections[c].source.src_if = Deleted.source.src_if
    /\ Deleted.source.src_if \in DOMAIN interface
    /\ interface[Deleted.source.src_if].type = NmcType
    /\ Len(interface[Deleted.source.src_if].supporting_interface_list) = 1
    /\ interface[Deleted.source.src_if].supporting_interface_list[1]
           \in DOMAIN interface
    /\ Deleted.destination.dst_if \notin DOMAIN interface

\* the endpoints of connection conn and their supporting interfaces
CandidatesOf(if_list, conn) ==
    {n \in DOMAIN if_list :
        \E e \in {conn.source.src_if, conn.destination.dst_if} :
            \/ n = e
            \/ /\ e \in DOMAIN if_list
               /\ \E k \in DOMAIN if_list[e].supporting_interface_list :
                      if_list[e].supporting_interface_list[k] = n}

\* C4: a Delete of an existing connection removes the connection record
\* and every endpoint or endpoint-supporting interface that no remaining
\* connection protects; of a degree-to-degree connection that shares
\* nothing, the two NMCs and the two media channels are all gone.
C4_DeleteRemovesUnshared ==
    (call.op = "Delete" /\ call.result = "Deleted")
    => /\ call.connection_name \notin DOMAIN roadm_connections
       /\ DOMAIN roadm_connections =
              DOMAIN call.pre_connections \ {call.connection_name}
       /\ \A n \in CandidatesOf(call.pre_interface, Deleted) :
              ~ProtectedBy(n, call.pre_interface, roadm_connections)
              => n \notin DOMAIN interface
       /\ \A s \in Degrees, d \in Degrees, f \in FreqStrs :
              ( /\ call.connection_name =
                       "DEG" \o Str(s) \o "-RX-to-DEG" \o Str(d) \o "-TX-" \o f
                /\ \A c \in DOMAIN roadm_connections :
                       {roadm_connections[c].source.src_if,
                        roadm_connections[c].destination.dst_if}
                       \cap {"NMC-CTP-DEG" \o Str(s) \o "-RX-" \o f,
                             "NMC-CTP-DEG" \o Str(d) \o "-TX-" \o f} = {} )
              => {"MC-TTP-DEG" \o Str(s) \o "-RX-" \o f,
                  "NMC-CTP-DEG" \o Str(s) \o "-RX-" \o f,
                  "MC-TTP-DEG" \o Str(d) \o "-TX-" \o f,
                  "NMC-CTP-DEG" \o Str(d) \o "-TX-" \o f}
                 \cap DOMAIN interface = {}

\* the connection DEG1-RX-to-DEG2-TX-193.3 deleted with its four
\* interfaces, while another connection stays
C4_FourInterfacesGone ==
    /\ call.op = "Delete"
    /\ call.result = "Deleted"
    /\ call.connection_name = "DEG1-RX-to-DEG2-TX-193.3"
    /\ {"MC-TTP-DEG1-RX-193.3", "NMC-CTP-DEG1-RX-193.3",
        "MC-TTP-DEG2-TX-193.3", "NMC-CTP-DEG2-TX-193.3"}
           \subseteq DOMAIN call.pre_interface
    /\ {"MC-TTP-DEG1-RX-193.3", "NMC-CTP-DEG1-RX-193.3",
        "MC-TTP-DEG2-TX-193.3", "NMC-CTP-DEG2-TX-193.3"}
           \cap DOMAIN interface = {}
    /\ roadm_connections # EmptyList

\* what an accepted Build left untouched: every interface and connection
\* it found, but for the connection record of its own name
OthersUntouched(conn_name) ==
    /\ \A n \in DOMAIN call.pre_interface :
           n \in DOMAIN interface /\ interface[n] = call.pre_interface[n]
    /\ \A c \in DOMAIN call.pre_connections \ {conn_name} :
           c \in DOMAIN roadm_connections
           /\ roadm_connections[c] = call.pre_connections[c]

\* interface name is a media channel riding on the OMS interface oms
IsMcOver(name, oms) ==
    /\ name \in DOMAIN interface
    /\ interface[name].type = McType
    /\ interface[name].administrative_state = "inService"
    /\ interface[name].supporting_interface_list = <<oms>>

\* interface name is an NMC whose supporting interfaces are sil
IsNmcOver(name, sil, f) ==
    /\ name \in DOMAIN interface
    /\ interface[name].type = NmcType
    /\ interface[name].supporting_interface_list = sil
    /\ interface[name].nmc_ctp.frequency = f

\* connection name exists from src_if to dst_if with the control mode off,
\* and is what the invocation returned
IsConnection(name, src_if, dst_if) ==
    /\ call.connection_name = name
    /\ name \in DOMAIN roadm_connections
    /\ roadm_connections[name].source.src_if = src_if
    /\ roadm_connections[name].destination.dst_if = dst_if
    /\ roadm_connections[name].opticalControlMode = "off"

\* the state an accepted Build from degree s to degree d commits, but for
\* the slots
DegreeStack(s, d, f) ==
    LET src_mc == "MC-TTP-DEG" \o Str(s) \o "-RX-" \o f
        src_nmc == "NMC-CTP-DEG" \o Str(s) \o "-RX-" \o f
        dst_mc == "MC-TTP-DEG" \o Str(d) \o "-TX-" \o f
        dst_nmc == "NMC-CTP-DEG" \o Str(d) \o "-TX-" \o f
        conn_name == "DEG" \o Str(s) \o "-RX-to-DEG" \o Str(d) \o "-TX-" \o f
    IN /\ IsMcOver(src_mc, "OMS-DEG" \o Str(s) \o "-TTP-RX")
       /\ IsNmcOver(src_nmc, <<src_mc>>, f)
       /\ IsMcOver(dst_mc, "OMS-DEG" \o Str(d) \o "-TTP-TX")
       /\ IsNmcOver(dst_nmc, <<dst_mc>>, f)
       /\ IsConnection(conn_name, src_nmc, dst_nmc)
       /\ DOMAIN interface =
              DOMAIN call.pre_interface \cup {src_mc, src_nmc, dst_mc, dst_nmc}
       /\ DOMAIN roadm_connections = DOMAIN call.pre_connections \cup {conn_name}
       /\ OthersUntouched(conn_name)

\* the slot of media channel name is exactly [f-0.05, f+0.05]
SlotExact(name, f) ==
    /\ HasSlot(interface[name])
    /\ Milli(interface[name].mc_ttp.min_freq) = Milli(f) - 50
    /\ Milli(interface[name].mc_ttp.max_freq) = Milli(f) + 50

Within(x, y, eps) == x - y <= eps /\ y - x <= eps

\* the slot of media channel name is f-0.05 and f+0.05, each rounded to
\* two decimal places
SlotRounded(name, f) ==
    /\ HasSlot(interface[name])
    /\ Milli(interface[name].mc_ttp.min_freq) % 10 = 0
    /\ Milli(interface[name].mc_ttp.max_freq) % 10 = 0
    /\ Within(Milli(interface[name].mc_ttp.min_freq), Milli(f) - 50, 5)
    /\ Within(Milli(interface[name].mc_ttp.max_freq), Milli(f) + 50, 5)

AcceptedToDegree ==
    call.op = "Build" /\ call.result = "Created" /\ call.dst_degree # None

AcceptedToSrg ==
    call.op = "Build" /\ call.result = "Created" /\ call.dst_pp # None

\* C5 (as stated): an accepted Build from degree s to degree d at f commits
\* the MC and NMC on DEG<s> RX and on DEG<d> TX, each MC with slot exactly
\* [f-0.05, f+0.05], each NMC over its MC, and the connection between the
\* two NMCs with the control mode off, and adds nothing else.
C5_BuildCommitsExactSlots ==
    AcceptedToDegree
    => /\ DegreeStack(call.src_degree, call.dst_degree, call.frequency)
       /\ SlotExact("MC-TTP-DEG" \o Str(call.src_degree) \o "-RX-" \o call.frequency,
                    call.frequency)
       /\ SlotExact("MC-TTP-DEG" \o Str(call.dst_degree) \o "-TX-" \o call.frequency,
                    call.frequency)

\* C5 (amended): as above, each MC with the slot f-0.05 to f+0.05 in the
\* two-decimal format the slot is stored in.
C5_BuildCommitsStack ==
    AcceptedToDegree
    => /\ DegreeStack(call.src_degree, call.dst_degree, call.frequency)
       /\ SlotRounded("MC-TTP-DEG" \o Str(call.src_degree) \o "-RX-" \o call.frequency,
                      call.frequency)
       /\ SlotRounded("MC-TTP-DEG" \o Str(call.dst_degree) \o "-TX-" \o call.frequency,
                      call.frequency)

\* an accepted Build from degree 1 to degree 2 at 193.304 on a device that
\* has a connection already: the slots are 193.25 to 193.35
C5_BuiltAtThreeDecimals ==
    /\ AcceptedToDegree
    /\ call.connection_name = "DEG1-RX-to-DEG2-TX-193.304"
    /\ call.pre_connections # EmptyList
    /\ interface["MC-TTP-DEG1-RX-193.304"].mc_ttp =
           [min_freq |-> "193.25", max_freq |-> "193.35"]
    /\ interface["MC-TTP-DEG2-TX-193.304"].mc_ttp =
           [min_freq |-> "193.25", max_freq |-> "193.35"]

TwoDigits(n) == IF n < 10 THEN "0" \o Str(n) ELSE Str(n)

\* C6: an accepted Build from degree s to port pair p at f creates the MC
\* and NMC on DEG<s> RX and the NMC SRG1-PP<p, two digits>-TX-<f> with an
\* empty supporting list and no MC, and the connection to that NMC; a
\* Build to a port pair whose slot lies apart from the slots on DEG<s> RX
\* is accepted whatever exists on the SRG side.
C6_BuildToSrg ==
    LET s == call.src_degree
        f == call.frequency
        src_mc == "MC-TTP-DEG" \o Str(s) \o "-RX-" \o f
        src_nmc == "NMC-CTP-DEG" \o Str(s) \o "-RX-" \o f
        srg_nmc == "SRG1-PP" \o TwoDigits(call.dst_pp) \o "-TX-" \o f
        conn_name == "DEG" \o Str(s) \o "-RX-to-" \o srg_nmc
    IN /\ AcceptedToSrg
          => /\ IsMcOver(src_mc, "OMS-DEG" \o Str(s) \o "-TTP-RX")
             /\ SlotRounded(src_mc, f)
             /\ IsNmcOver(src_nmc, <<src_mc>>, f)
             /\ IsNmcOver(srg_nmc, <<>>, f)
             /\ IsConnection(conn_name, src_nmc, srg_nmc)
             /\ DOMAIN interface =
                    DOMAIN call.pre_interface \cup {src_mc, src_nmc, srg_nmc}
             /\ DOMAIN roadm_connections =
                    DOMAIN call.pre_connections \cup {conn_name}
             /\ OthersUntouched(conn_name)
       /\ ( /\ call.op = "Build"
            /\ ValidInputs(call)
            /\ call.dst_pp # None
            /\ Numeric(f)
            /\ CandidateApart(call.pre_interface, s, RX, f) )
          => call.result = "Created"

\* an accepted Build from degree 2 to port pair 1 at 193.3 while the
\* interface SRG1-PP01-TX-193.3 exists as destination of another connection
C6_BuiltToSrgInUse ==
    /\ AcceptedToSrg
    /\ call.connection_name = "DEG2-RX-to-SRG1-PP01-TX-193.3"
    /\ "SRG1-PP01-TX-193.3" \in DOMAIN call.pre_interface
    /\ "DEG1-RX-to-SRG1-PP01-TX-193.3" \in DOMAIN roadm_connections
    /\ roadm_connections["DEG2-RX-to-SRG1-PP01-TX-193.3"].destination.dst_if
           = "SRG1-PP01-TX-193.3"

Unchanged ==
    interface = call.pre_interface /\ roadm_connections = call.pre_connections

\* C7: a Build without source degree reports MissingParameter whatever
\* its destination inputs; with a source degree and both or neither of
\* destination degree and port pair it reports
\* AmbiguousOrMissingDestination; either way the interface and connection
\* lists are unchanged.
C7_ValidationOrder ==
    call.op = "Build"
    => /\ call.src_degree = None
          => call.result = "MissingParameter" /\ Unchanged
       /\ (call.src_degree # None /\ (call.dst_degree = None) = (call.dst_pp = None))
          => call.result = "AmbiguousOrMissingDestination" /\ Unchanged
       /\ call.result \in {"MissingParameter", "AmbiguousOrMissingDestination"}
          => ~ValidInputs(call)

\* a Build with neither source nor destination, on a device that has a
\* connection, reports MissingParameter
C7_MissingSourceFirst ==
    /\ call.op = "Build"
    /\ call.src_degree = None
    /\ call.dst_degree = None
    /\ call.dst_pp = None
    /\ call.result = "MissingParameter"
    /\ roadm_connections # EmptyList

\* the centre frequency a media channel on (d, dir) was created for
Centre(name, d, dir) == SubSeq(name, Len(McPrefix(d, dir)) + 1, Len(name))

\* C8: for a candidate frequency f and the media channels that
\* ensure_mc_deg created on (degree, direction), _slot_overlaps is true
\* exactly when f is less than 0.1 away from the centre frequency of one
\* of them; at a distance of exactly 0.1 it is false.
C8_OverlapIffWithinTenth ==
    (call.op = "_slot_overlaps" /\ Numeric(call.frequency))
    => ( call.result = "True"
         <=> \E n \in McOn(call.pre_interface, call.src_degree, call.direction) :
                 LET c == Centre(n, call.src_degree, call.direction)
                 IN /\ Numeric(c)
                    /\ Within(Milli(call.frequency), Milli(c), 99) )

\* C9: a Build that has passed its overlap check commits whatever other
\* Builds have committed since: every Build with valid inputs and a
\* numeric frequency that is not rejected with SlotConflict ends with its
\* connection and its source MC and NMC committed and reports success.
C9_WriteAfterCheckCommits ==
    ( /\ call.op = "Build"
      /\ ValidInputs(call)
      /\ Numeric(call.frequency)
      /\ call.result # "SlotConflict" )
    => /\ call.result = "Created"
       /\ call.connection_name \in DOMAIN roadm_connections
       /\ roadm_connections[call.connection_name].source.src_if
              = "NMC-CTP-DEG" \o Str(call.src_degree) \o "-RX-" \o call.frequency
       /\ {"MC-TTP-DEG" \o Str(call.src_degree) \o "-RX-" \o call.frequency,
           "NMC-CTP-DEG" \o Str(call.src_degree) \o "-RX-" \o call.frequency}
              \subseteq DOMAIN interface

\* two Builds from degree 1, at 193.3 and at 193.32, have both committed
\* and the second has just reported success: the two media channels on
\* degree 1 RX have overlapping slots
C9_OverlappingSlotsCommitted ==
    /\ call.op = "Build"
    /\ call.result = "Created"
    /\ call.src_degree = 1
    /\ call.frequency = "193.32"
    /\ "MC-TTP-DEG1-RX-193.3" \in DOMAIN call.pre_interface
    /\ "MC-TTP-DEG1-RX-193.32" \in DOMAIN interface
    /\ StoredOverlap(interface["MC-TTP-DEG1-RX-193.3"],
                     interface["MC-TTP-DEG1-RX-193.32"])
    /\ \E c1, c2 \in DOMAIN roadm_connections :
           /\ roadm_connections[c1].source.src_if = "NMC-CTP-DEG1-RX-193.3"
           /\ roadm_connections[c2].source.src_if = "NMC-CTP-DEG1-RX-193.32"

\* the name an ensure operation computes from the arguments of the call
ComputedName ==
    IF call.op = "ensure_mc_deg"
    THEN "MC-TTP-DEG" \o Str(call.src_degree) \o "-" \o call.direction \o "-"
             \o call.frequency
    ELSE IF call.op = "ensure_nmc_deg"
    THEN "NMC-CTP-DEG" \o Str(call.src_degree) \o "-" \o call.direction \o "-"
             \o call.frequency
    ELSE "SRG1-PP" \o TwoDigits(call.dst_pp) \o "-" \o call.direction \o "-"
             \o call.frequency

RecoversArguments ==
    LET info == parse_if_name(call.ret)
    IN /\ info.direction = call.direction
       /\ info.frequency = call.frequency
       /\ call.op = "ensure_mc_deg"
          => /\ info.layer = "MC"
             /\ info.degree_id = call.src_degree
             /\ info.srg_id = None
             /\ info.pp_id = None
       /\ call.op = "ensure_nmc_deg"
          => /\ info.layer = "NMC"
             /\ info.degree_id = call.src_degree
             /\ info.srg_id = None
             /\ info.pp_id = None
       /\ call.op = "ensure_nmc_srg_pp"
          => /\ info.layer = "NMC"
             /\ info.degree_id = None
             /\ info.srg_id = 1
             /\ info.pp_id = call.dst_pp

C12_DeleteOfMissingName ==
    (call.op = "Delete" /\ call.connection_name \notin DOMAIN call.pre_connections)
    => call.result = "ConnectionNotFound" /\ Unchanged

\* a Delete of DEG1-RX-to-DEG2-TX-193.4 finds only
\* DEG1-RX-to-DEG2-TX-193.3 and its interfaces, and keeps them
C12_OtherConnectionKept ==
    /\ call.op = "Delete"
    /\ call.result = "ConnectionNotFound"
    /\ call.connection_name = "DEG1-RX-to-DEG2-TX-193.4"
    /\ DOMAIN roadm_connections = {"DEG1-RX-to-DEG2-TX-193.3"}
    /\ "MC-TTP-DEG2-TX-193.3" \in DOMAIN interface

\* C13: a Discover run repeated with the same device list, no device
\* having changed in between, leaves the topology cache (nodes, degrees,
\* SRGs, termination points, connections) as the first run left it.
C13_DiscoverIdempotent ==
    (call.op = "Discover" /\ call.again) => topo = call.pre_topo

\* Discover has run twice over both devices, each with interfaces and a
\* connection; the SRG of D2 is known from its port interface alone
C13_DiscoveredTwice ==
    /\ call.op = "Discover"
    /\ call.again
    /\ DOMAIN topo.node = {"D1", "D2"}
    /\ topo.node["D1"].degree = {1, 2}
    /\ topo.node["D2"].srg = {1}
    /\ "SRG1-PP01-TX-193.3" \in DOMAIN topo.node["D2"].tp
    /\ "DEG1-RX-to-DEG2-TX-193.3" \in DOMAIN topo.connection

\* the devices a Discover run with list device_list is to discover
Discovered(device_list) ==
    IF device_list = <<>> THEN DOMAIN devices
    ELSE {device_list[i] : i \in 1..Len(device_list)} \cap DOMAIN devices

\* C14: after a Discover run, for every discovered device D and every
\* connection C of D, the cache holds a connection with device D, the name
\* of C and the source and destination interfaces of C, also when two
\* discovered devices have a connection of the same name.
C14_ConnectionsMirrored ==
    call.op = "Discover"
    => \A d \in Discovered(call.device) :
           \A c \in DOMAIN devices[d].roadm_connections :
               \E k \in DOMAIN topo.connection :
                   /\ topo.connection[k].device = d
                   /\ topo.connection[k].name = c
                   /\ topo.connection[k].src_if
                          = devices[d].roadm_connections[c].source.src_if
                   /\ topo.connection[k].dst_if
                          = devices[d].roadm_connections[c].destination.dst_if

\* C17: after a Discover run with device list L, the nodes of the cache
\* are the devices of L that the store has (all devices when L is empty):
\* a name of L without device gives no node and stops nothing, and no node
\* or connection of an earlier run stays for a device outside L.
C17_NodesAreRequestedDevices ==
    call.op = "Discover"
    => /\ DOMAIN topo.node = Discovered(call.device)
       /\ \A d \in DOMAIN topo.node :
              /\ topo.node[d].device = d
              /\ DOMAIN topo.node[d].tp = DOMAIN devices[d].interface
       /\ \A k \in DOMAIN topo.connection :
              /\ topo.connection[k].device \in Discovered(call.device)
              /\ topo.connection[k].name
                     \in DOMAIN devices[topo.connection[k].device].roadm_connections

\* Discover of D3 and D1, D3 being no device, on a cache that held the
\* node and a connection of D2: the node of D1 alone is left, with the
\* connection of D1
C17_StaleNodeRemoved ==
    /\ call.op = "Discover"
    /\ call.device = <<"D3", "D1">>
    /\ "D2" \in DOMAIN call.pre_topo.node
    /\ \E k \in DOMAIN call.pre_topo.connection :
           call.pre_topo.connection[k].device = "D2"
    /\ DOMAIN topo.node = {"D1"}
    /\ topo.connection # EmptyList
    /\ \A k \in DOMAIN topo.connection : topo.connection[k].device = "D1"

\* C15: under any interleaving of Build and Delete invocations, the source
\* and the destination interface of every connection record are
\* interfaces of the device.
C15_EndpointsExist ==
    \A c \in DOMAIN roadm_connections :
        /\ roadm_connections[c].source.src_if \in DOMAIN interface
        /\ roadm_connections[c].destination.dst_if \in DOMAIN interface

\* a Delete has removed one of two connections to the same SRG port
\* interface, which the other still names as its destination
C15_SharedDestinationKept ==
    /\ call.op = "Delete"
    /\ call.result = "Deleted"
    /\ Deleted.destination.dst_if = "SRG1-PP01-TX-193.3"
    /\ \E c \in DOMAIN roadm_connections :
           roadm_connections[c].destination.dst_if = "SRG1-PP01-TX-193.3"
    /\ "SRG1-PP01-TX-193.3" \in DOMAIN interface
    /\ Deleted.source.src_if \notin DOMAIN interface

\* C16: a Build with valid inputs whose frequency string is no number is
\* not rejected with SlotConflict; it fails in the write transaction, and
\* the committed interface and connection lists are unchanged.
C16_MalformedFrequencyFails ==
    (call.op = "Build" /\ ValidInputs(call) /\ ~Numeric(call.frequency))
    => /\ call.result = "Exception"
       /\ call.detail = "ok"
       /\ Unchanged
       /\ LET mc == ensure_mc_deg(call.pre_interface, call.src_degree, RX,
                                  call.frequency)
          IN /\ mc.raised
             /\ McName(call.src_degree, RX, call.frequency) \in DOMAIN mc.if_list
             /\ McName(call.src_degree, RX, call.frequency) \notin DOMAIN interface
       /\ ~_slot_overlaps(call.pre_interface, call.src_degree, RX, call.frequency)

\* a Build from degree 1 to degree 2 at "abc" has failed on a device that
\* has a connection, and has left no interface MC-TTP-DEG1-RX-abc
C16_FailedAtSourceMc ==
    /\ call.op = "Build"
    /\ call.frequency = "abc"
    /\ call.src_degree = 1
    /\ call.dst_degree = 2
    /\ call.result = "Exception"
    /\ roadm_connections # EmptyList
    /\ "MC-TTP-DEG1-RX-abc" \notin DOMAIN interface

\* C18: a Build whose read transaction for the overlap check raises is not
\* rejected: it goes on to its write transaction and commits its
\* interfaces and its connection, also when its slot overlaps a stored
\* slot on the same degree and direction.
C18_CheckErrorProceeds ==
    ( /\ call.op = "Build"
      /\ call.detail = "Overlap check error"
      /\ Numeric(call.frequency) )
    => /\ ValidInputs(call)
       /\ call.result = "Created"
       /\ call.connection_name \in DOMAIN roadm_connections
       /\ roadm_connections[call.connection_name].source.src_if
              = "NMC-CTP-DEG" \o Str(call.src_degree) \o "-RX-" \o call.frequency
       /\ roadm_connections[call.connection_name].source.src_if \in DOMAIN interface
       /\ roadm_connections[call.connection_name].destination.dst_if
              \in DOMAIN interface
       /\ ("MC-TTP-DEG" \o Str(call.src_degree) \o "-RX-" \o call.frequency)
              \in DOMAIN interface

\* a Build from degree 1 at 193.32 whose overlap check raised has
\* committed next to the media channel at 193.3: the slots overlap
C18_OverlapCommitted ==
    /\ call.op = "Build"
    /\ call.detail = "Overlap check error"
    /\ call.result = "Created"
    /\ call.src_degree = 1
    /\ call.frequency = "193.32"
    /\ "MC-TTP-DEG1-RX-193.3" \in DOMAIN call.pre_interface
    /\ CandidateOverlaps(call.pre_interface, 1, RX, "193.32")
    /\ StoredOverlap(interface["MC-TTP-DEG1-RX-193.3"],
                     interface["MC-TTP-DEG1-RX-193.32"])

\* the MC and NMC interfaces of the device
McAndNmc == {n \in DOMAIN interface : interface[n].type \in {McType, NmcType}}

\* the endpoints of the connections, and the interfaces they list as
\* supporting
Endpoints ==
    UNION {{roadm_connections[c].source.src_if,
            roadm_connections[c].destination.dst_if} : c \in DOMAIN roadm_connections}

EndpointSupports ==
    {n \in DOMAIN interface :
        \E e \in Endpoints \cap DOMAIN interface :
            \E k \in DOMAIN interface[e].supporting_interface_list :
                interface[e].supporting_interface_list[k] = n}

\* C19: with Build and Delete invocations one at a time, the MC and NMC
\* interfaces are the endpoints of the connections and the media channels
\* supporting them; a Delete of the connection a Build has just created
\* gives back the lists the Build found; with no connection left there is
\* no MC or NMC interface.
C19_NoInterfaceLeak ==
    /\ McAndNmc = Endpoints \cup {n \in EndpointSupports : interface[n].type = McType}
    /\ (call.op = "Build" /\ call.result = "Created")
       => DeleteTrans(interface, roadm_connections, call.connection_name)
              = [interface |-> call.pre_interface,
                 roadm_connections |-> call.pre_connections]
    /\ roadm_connections = EmptyList => McAndNmc = {}

\* the last of two connections has been deleted, and of the interfaces
\* that were there none is left but the OMS ones
C19_AllDeleted ==
    /\ call.op = "Delete"
    /\ call.result = "Deleted"
    /\ roadm_connections = EmptyList
    /\ Cardinality(DOMAIN call.pre_interface) > Cardinality(DOMAIN OmsInterfaces) + 3
    /\ interface = OmsInterfaces

\* C20: with Build and Delete invocations one at a time, while a
\* connection from degree s at f exists its source media channel exists,
\* every Build from degree s at f is rejected with SlotConflict, and an
\* accepted Build never finds a connection of its name.
C20_RepeatRejected ==
    /\ \A c \in DOMAIN roadm_connections :
           LET src_if == roadm_connections[c].source.src_if
           IN /\ src_if \in DOMAIN interface
              /\ Len(interface[src_if].supporting_interface_list) = 1
              /\ interface[src_if].supporting_interface_list[1] \in DOMAIN interface
              /\ StartsWith(interface[src_if].supporting_interface_list[1], "MC-TTP-DEG")
    /\ (call.op = "Build" /\ ValidInputs(call))
       => /\ (\E c \in DOMAIN call.pre_connections :
                 call.pre_connections[c].source.src_if
                     = "NMC-CTP-DEG" \o Str(call.src_degree) \o "-RX-" \o call.frequency)
             => /\ ("MC-TTP-DEG" \o Str(call.src_degree) \o "-RX-" \o call.frequency)
                       \in DOMAIN call.pre_interface
                /\ call.result = "SlotConflict"
                /\ Unchanged
          /\ call.result = "Created"
             => call.connection_name \notin DOMAIN call.pre_connections

\* the Build that created DEG1-RX-to-DEG2-TX-193.304 has been repeated
\* and rejected
C20_SameBuildAgain ==
    /\ call.op = "Build"
    /\ call.src_degree = 1
    /\ call.dst_degree = 2
    /\ call.frequency = "193.304"
    /\ "DEG1-RX-to-DEG2-TX-193.304" \in DOMAIN call.pre_connections
    /\ call.result = "SlotConflict"

\* the name of the media channel on the degree, direction and frequency of
\* the NMC interface nmc (a name NMC-CTP-DEG<n>-<dir>-<f>)
McOfNmc(nmc) ==
    "MC-TTP-DEG" \o SubSeq(nmc, Len("NMC-CTP-DEG") + 1, Len(nmc))

\* the NMC interfaces on the degrees of if_list
DegNmcs(if_list) ==
    {n \in DOMAIN if_list : StartsWith(n, "NMC-CTP-DEG")}

\* C21: under any interleaving of Build and Delete invocations, Builds
\* that both passed the overlap check included, every interface
\* NMC-CTP-DEG<n>-<dir>-<f> lists MC-TTP-DEG<n>-<dir>-<f> as its
\* supporting interface and that media channel is an interface of the
\* device; a Delete removes no media channel that a surviving NMC lists.
C21_NmcHasItsMc ==
    /\ \A n \in DegNmcs(interface) :
           /\ interface[n].type = NmcType
           /\ interface[n].supporting_interface_list = <<McOfNmc(n)>>
           /\ McOfNmc(n) \in DOMAIN interface
           /\ interface[McOfNmc(n)].type = McType
    /\ (call.op = "Delete" /\ call.result = "Deleted")
       => \A n \in DegNmcs(call.pre_interface) \cap DOMAIN interface :
              \A k \in DOMAIN call.pre_interface[n].supporting_interface_list :
                  call.pre_interface[n].supporting_interface_list[k]
                      \in DOMAIN call.pre_interface
                  => call.pre_interface[n].supporting_interface_list[k]
                         \in DOMAIN interface

\* two Builds from degree 1 at 193.3 have both been committed; the one to
\* degree 2 has been deleted, and the source NMC that the other still uses
\* has kept its media channel
C21_SharedSourceMcKept ==
    /\ call.op = "Delete"
    /\ call.result = "Deleted"
    /\ call.connection_name = "DEG1-RX-to-DEG2-TX-193.3"
    /\ roadm_connections # EmptyList
    /\ \A c \in DOMAIN roadm_connections :
           roadm_connections[c].source.src_if = "NMC-CTP-DEG1-RX-193.3"
    /\ "NMC-CTP-DEG1-RX-193.3" \in DOMAIN interface
    /\ "MC-TTP-DEG1-RX-193.3" \in DOMAIN interface
    /\ "MC-TTP-DEG2-TX-193.3" \notin DOMAIN interface

====
